---- MODULE Spec2Model ----
(***************************************************************************)
(* A model of dateutil/parser/isoparser.py: the ISO-8601 date, time,       *)
(* datetime and time zone offset parsers of class Isoparser.               *)
(*                                                                         *)
(* A Python str is a sequence of one-character strings.  A call that can   *)
(* raise returns a record whose field ok says whether it returned, and     *)
(* whose field err names the exception class when it did not.              *)
(***************************************************************************)
EXTENDS Integers, Sequences, FiniteSets, TLC

VARIABLES
    self,      \* the Isoparser instance: made, _sep, _default_year
    op,        \* the method called last ("none" before any call)
    arg,       \* how the argument text was put together (date part, time part)
    text,      \* the str passed to the method
    flag,      \* common_only (isoparse) or zero_as_utc (parse_tzstr)
    result     \* what the call returned or raised

vars == <<self, op, arg, text, flag, result>>

----------------------------------------------------------------------------
(* Python str and int                                                      *)

DigitChars == <<"0", "1", "2", "3", "4", "5", "6", "7", "8", "9">>

IsDigit(c) == \E i \in 1..10 : DigitChars[i] = c

DigitVal(c) == (CHOOSE i \in 1..10 : DigitChars[i] = c) - 1

\* len(s)
len(s) == Len(s)

\* s[i:j] for 0 <= i: never raises, clamps to the end of s
Slice(s, i, j) ==
    LET hi == IF j < Len(s) THEN j ELSE Len(s)
    IN  IF i >= hi THEN <<>> ELSE SubSeq(s, i + 1, hi)

\* s[i:]
SliceFrom(s, i) == Slice(s, i, Len(s))

\* whether s[i] exists (otherwise s[i] raises IndexError)
HasIndex(s, i) == 0 <= i /\ i < Len(s)

\* s[i], 0-based, for an index that exists
At(s, i) == s[i + 1]

RECURSIVE DecValUpTo(_, _)
\* the number the first n characters of s, all digits, write in decimal
DecValUpTo(s, n) ==
    IF n = 0 THEN 0 ELSE DecValUpTo(s, n - 1) * 10 + DigitVal(s[n])

DecVal(s) == DecValUpTo(s, Len(s))

AllDigits(s) == s # <<>> /\ \A i \in 1..Len(s) : IsDigit(s[i])

RECURSIVE LStrip(_)
LStrip(s) == IF s # <<>> /\ s[1] = " " THEN LStrip(Tail(s)) ELSE s

RECURSIVE RStrip(_)
RStrip(s) ==
    IF s # <<>> /\ s[Len(s)] = " " THEN RStrip(SubSeq(s, 1, Len(s) - 1)) ELSE s

\* a local variable: F with its parameter bound to the value v
Bind(v, F(_)) == F(v)

\* int(s) for a str s: surrounding whitespace is dropped, one sign is allowed,
\* the rest must be decimal digits; anything else raises ValueError.
int(s) ==
    Bind(RStrip(LStrip(s)), LAMBDA t :
      IF AllDigits(t) THEN [ok |-> TRUE, val |-> DecVal(t)]
      ELSE IF Len(t) >= 2 /\ t[1] \in {"+", "-"} /\ AllDigits(Tail(t))
           THEN [ok |-> TRUE,
                 val |-> IF t[1] = "-" THEN 0 - DecVal(Tail(t))
                         ELSE DecVal(Tail(t))]
           ELSE [ok |-> FALSE, val |-> 0])

\* 10 ** n for the exponents 6 - len(us_str) can take
Pow10(n) ==
    CASE n = 0 -> 1 [] n = 1 -> 10 [] n = 2 -> 100 [] n = 3 -> 1000
      [] n = 4 -> 10000 [] n = 5 -> 100000 [] OTHER -> 1000000

----------------------------------------------------------------------------
(* datetime.date, datetime.time, datetime.timedelta and calendar, as the   *)
(* parser uses them                                                        *)

\* calendar.isleap(year)
isleap(year) == year % 4 = 0 /\ (year % 100 # 0 \/ year % 400 = 0)

DaysInMonth(year, month) ==
    IF month = 2 THEN (IF isleap(year) THEN 29 ELSE 28)
    ELSE IF month \in {4, 6, 9, 11} THEN 30 ELSE 31

DaysBeforeMonth(year, month) ==
    <<0, 31, 59, 90, 120, 151, 181, 212, 243, 273, 304, 334>>[month]
      + (IF month > 2 /\ isleap(year) THEN 1 ELSE 0)

DaysBeforeYear(year) ==
    (year - 1) * 365 + ((year - 1) \div 4) - ((year - 1) \div 100)
      + ((year - 1) \div 400)

\* date.toordinal(): 0001-01-01 is day 1
toordinal(ymd) ==
    DaysBeforeYear(ymd[1]) + DaysBeforeMonth(ymd[1], ymd[2]) + ymd[3]

\* date.max.toordinal(), the ordinal of 9999-12-31
MaxOrdinal == toordinal(<<9999, 12, 31>>)

\* the date that is day r (from 0) of year
DayOfYear(year, r) ==
    Bind(CHOOSE m \in 1..12 :
           /\ DaysBeforeMonth(year, m) <= r
           /\ r < DaysBeforeMonth(year, m) + DaysInMonth(year, m),
         LAMBDA month : <<year, month, r - DaysBeforeMonth(year, month) + 1>>)

\* date.fromordinal(n) for 1 <= n <= MaxOrdinal: n - 1 is split into 400-,
\* 100-, 4- and 1-year cycles
fromordinal(n) ==
    Bind((n - 1) \div 146097, LAMBDA n400 :
    Bind((n - 1) % 146097, LAMBDA r400 :
    Bind(r400 \div 36524, LAMBDA n100 :
    Bind(r400 % 36524, LAMBDA r100 :
    Bind(r100 \div 1461, LAMBDA n4 :
    Bind(r100 % 1461, LAMBDA r4 :
    Bind(r4 \div 365, LAMBDA n1 :
    Bind(n400 * 400 + n100 * 100 + n4 * 4 + n1 + 1, LAMBDA year :
      IF n1 = 4 \/ n100 = 4 THEN <<year - 1, 12, 31>>
      ELSE DayOfYear(year, r4 % 365)))))))))

NoDate == <<0, 0, 0>>

\* date(year, month, day): ValueError unless the fields name a day of the
\* proleptic Gregorian calendar in the years 1..9999
date(year, month, day) ==
    IF /\ 1 <= year /\ year <= 9999
       /\ 1 <= month /\ month <= 12
       /\ 1 <= day /\ day <= DaysInMonth(year, month)
    THEN [ok |-> TRUE, err |-> "", ymd |-> <<year, month, day>>]
    ELSE [ok |-> FALSE, err |-> "ValueError", ymd |-> NoDate]

\* date.fromordinal(o), or OverflowError outside date.min .. date.max
DateOfOrdinal(o) ==
    IF 1 <= o /\ o <= MaxOrdinal
    THEN [ok |-> TRUE, err |-> "", ymd |-> fromordinal(o)]
    ELSE [ok |-> FALSE, err |-> "OverflowError", ymd |-> NoDate]

\* d + timedelta(days=n)
AddDays(ymd, n) == DateOfOrdinal(toordinal(ymd) + n)

\* the ordinal of the Monday that starts the ISO week 1 of the year whose
\* first day has the ordinal firstday
Week1MondayFrom(firstday) ==
    IF (firstday + 6) % 7 > 3
    THEN firstday - ((firstday + 6) % 7) + 7
    ELSE firstday - ((firstday + 6) % 7)

\* datetime's _isoweek1monday(year)
isoweek1monday(year) == Week1MondayFrom(DaysBeforeYear(year) + 1)

\* date.isocalendar() of the day with ordinal today in year:
\* <<ISO year, ISO week, ISO weekday>>
IsoCalendarOf(year, today) ==
    IF today < isoweek1monday(year)
    THEN <<year - 1,
           ((today - isoweek1monday(year - 1)) \div 7) + 1,
           ((today - isoweek1monday(year - 1)) % 7) + 1>>
    ELSE IF /\ (today - isoweek1monday(year)) \div 7 >= 52
            /\ today >= isoweek1monday(year + 1)
         THEN <<year + 1, 1, ((today - isoweek1monday(year)) % 7) + 1>>
         ELSE <<year, ((today - isoweek1monday(year)) \div 7) + 1,
                ((today - isoweek1monday(year)) % 7) + 1>>

isocalendar(ymd) == IsoCalendarOf(ymd[1], toordinal(ymd))

\* time(hour, minute, second, microsecond): ValueError outside the ranges
TimeFieldsOk(hmsu) ==
    /\ 0 <= hmsu[1] /\ hmsu[1] <= 23
    /\ 0 <= hmsu[2] /\ hmsu[2] <= 59
    /\ 0 <= hmsu[3] /\ hmsu[3] <= 59
    /\ 0 <= hmsu[4] /\ hmsu[4] <= 999999

----------------------------------------------------------------------------
(* dateutil.tz values, as parse_tzstr builds them                          *)

NoTz == [kind |-> "none", minutes |-> 0]

\* tz.tzutc()
tzutc == [kind |-> "utc", minutes |-> 0]

\* tz.tzoffset(None, mult * timedelta(hours=hours, minutes=minutes))
tzoffset(mult, hours, minutes) ==
    [kind |-> "offset", minutes |-> mult * (hours * 60 + minutes)]

----------------------------------------------------------------------------
(* Isoparser.parse_tzstr                                                   *)

TzFail(e) == [ok |-> FALSE, err |-> e, tz |-> NoTz]

TzRet(tz) == [ok |-> TRUE, err |-> "", tz |-> tz]

\* the statements after hours and minutes are read
TzFromFields(mult, hours, minutes, zero_as_utc) ==
    IF ~hours.ok THEN TzFail("ValueError")
    ELSE IF ~minutes.ok THEN TzFail("ValueError")
    ELSE IF zero_as_utc /\ hours.val = 0 /\ minutes.val = 0 THEN TzRet(tzutc)
    ELSE IF minutes.val > 59 THEN TzFail("ValueError")
    ELSE IF hours.val > 23 THEN TzFail("ValueError")
    ELSE TzRet(tzoffset(mult, hours.val, minutes.val))

parse_tzstr(tzstr, zero_as_utc) ==
    IF tzstr = <<"Z">> THEN TzRet(tzutc)
    ELSE IF len(tzstr) \notin {3, 5, 6} THEN TzFail("ValueError")
    ELSE IF At(tzstr, 0) \notin {"-", "+"} THEN TzFail("ValueError")
    ELSE TzFromFields(
           IF At(tzstr, 0) = "-" THEN 0 - 1 ELSE 1,
           int(Slice(tzstr, 1, 3)),
           IF len(tzstr) = 3 THEN [ok |-> TRUE, val |-> 0]
           ELSE int(SliceFrom(tzstr, IF At(tzstr, 3) = ":" THEN 4 ELSE 3)),
           zero_as_utc)

----------------------------------------------------------------------------
(* Isoparser._calculate_weekdate                                           *)

DateFail(e) == [ok |-> FALSE, err |-> e, ymd |-> NoDate]

\* a faulty _calculate_weekdate, which C4 must tell from the real one: week 1
\* is taken to start isoweekday days before January 4, not isoweekday - 1
CalculateWeekdateSundayStart(year, week, day) ==
    IF ~(0 < week /\ week < 54) THEN DateFail("ValueError")
    ELSE IF ~(0 < day /\ day < 8) THEN DateFail("ValueError")
    ELSE
      Bind(date(year, 1, 4), LAMBDA jan_4 :
        IF ~jan_4.ok THEN jan_4
        ELSE
          Bind(AddDays(jan_4.ymd, 0 - isocalendar(jan_4.ymd)[3]),
               LAMBDA week_1 :
            IF ~week_1.ok THEN week_1
            ELSE AddDays(week_1.ymd, (week - 1) * 7 + (day - 1))))

_calculate_weekdate(year, week, day) ==
    IF ~(0 < week /\ week < 54) THEN DateFail("ValueError")
    ELSE IF ~(0 < day /\ day < 8) THEN DateFail("ValueError")
    ELSE
      Bind(date(year, 1, 4), LAMBDA jan_4 :
        IF ~jan_4.ok THEN jan_4
        ELSE
          Bind(AddDays(jan_4.ymd, 0 - (isocalendar(jan_4.ymd)[3] - 1)),
               LAMBDA week_1 :
            IF ~week_1.ok THEN week_1
            ELSE AddDays(week_1.ymd, (week - 1) * 7 + (day - 1))))

----------------------------------------------------------------------------
(* Isoparser._parse_isodate_common, _parse_isodate_uncommon, _parse_isodate *)

\* what a date parser returns: the components [year, month, day] and the
\* position after the last character it read
DpFail(e) == [ok |-> FALSE, err |-> e, components |-> NoDate, pos |-> 0]

DpRet(components, pos) ==
    [ok |-> TRUE, err |-> "", components |-> components, pos |-> pos]

\* a date the calendar arithmetic built (or the exception it raised), as
\* the components a date parser returns with pos
DpOfDate(base_date, pos) ==
    IF ~base_date.ok THEN DpFail(base_date.err) ELSE DpRet(base_date.ymd, pos)

\* a faulty _parse_isodate_common, which C1 must tell from the real one: the
\* '-' between month and day is checked but not stepped over
ParseIsodateCommonDaySepKept(dt_str) ==
    Bind(len(dt_str), LAMBDA len_str :
    Bind(int(Slice(dt_str, 0, 4)), LAMBDA year :
      IF len_str < 4 THEN DpFail("ValueError")
      ELSE IF ~year.ok THEN DpFail("ValueError")
      ELSE IF 4 >= len_str THEN DpRet(<<year.val, 1, 1>>, 4)
      ELSE
        Bind(At(dt_str, 4) = "-", LAMBDA has_sep :
        Bind(IF has_sep THEN 5 ELSE 4, LAMBDA pos1 :
        Bind(int(Slice(dt_str, pos1, pos1 + 2)), LAMBDA month :
          IF len_str - pos1 < 2 THEN DpFail("ValueError")
          ELSE IF ~month.ok THEN DpFail("ValueError")
          ELSE IF pos1 + 2 >= len_str
               THEN DpRet(<<year.val, month.val, 1>>, pos1 + 2)
          ELSE IF has_sep /\ At(dt_str, pos1 + 2) # "-"
               THEN DpFail("ValueError")
          ELSE
            Bind(pos1 + 2, LAMBDA pos3 :
            Bind(int(Slice(dt_str, pos3, pos3 + 2)), LAMBDA day :
              IF len_str - pos3 < 2 THEN DpFail("ValueError")
              ELSE IF ~day.ok THEN DpFail("ValueError")
              ELSE DpRet(<<year.val, month.val, day.val>>, pos3 + 2))))))))

_parse_isodate_common(dt_str) ==
    Bind(len(dt_str), LAMBDA len_str :
    Bind(int(Slice(dt_str, 0, 4)), LAMBDA year :
      IF len_str < 4 THEN DpFail("ValueError")
      ELSE IF ~year.ok THEN DpFail("ValueError")
      ELSE IF 4 >= len_str THEN DpRet(<<year.val, 1, 1>>, 4)
      ELSE
        Bind(At(dt_str, 4) = "-", LAMBDA has_sep :
        Bind(IF has_sep THEN 5 ELSE 4, LAMBDA pos1 :
        Bind(int(Slice(dt_str, pos1, pos1 + 2)), LAMBDA month :
          IF len_str - pos1 < 2 THEN DpFail("ValueError")
          ELSE IF ~month.ok THEN DpFail("ValueError")
          ELSE IF pos1 + 2 >= len_str
               THEN DpRet(<<year.val, month.val, 1>>, pos1 + 2)
          ELSE IF has_sep /\ At(dt_str, pos1 + 2) # "-"
               THEN DpFail("ValueError")
          ELSE
            Bind(IF has_sep THEN pos1 + 3 ELSE pos1 + 2, LAMBDA pos3 :
            Bind(int(Slice(dt_str, pos3, pos3 + 2)), LAMBDA day :
              IF len_str - pos3 < 2 THEN DpFail("ValueError")
              ELSE IF ~day.ok THEN DpFail("ValueError")
              ELSE DpRet(<<year.val, month.val, day.val>>, pos3 + 2))))))))

\* a faulty LatestLeapYear, which C5 must tell from the real one: the
\* century years that are not leap years are not stepped over
LatestLeapYearJulian(default_year) ==
    default_year - (default_year % 4)

\* "Calculates the latest leap year": the year used for --02-29
LatestLeapYear(default_year) ==
    Bind(default_year - (default_year % 4), LAMBDA year :
      IF year % 400 # 0 /\ ~(year % 100 # 0) THEN year - 4 ELSE year)

\* the branch for --MM-DD and --MMDD
UncommonNoYear(dt_str, default_year) ==
    Bind(int(Slice(dt_str, 2, 4)), LAMBDA month :
      IF ~month.ok THEN DpFail("ValueError")
      ELSE IF ~HasIndex(dt_str, 4) THEN DpFail("IndexError")
      ELSE
        Bind(4 + (IF At(dt_str, 4) = "-" THEN 1 ELSE 0), LAMBDA pos :
        Bind(int(Slice(dt_str, pos, pos + 2)), LAMBDA day :
          IF ~day.ok THEN DpFail("ValueError")
          ELSE IF month.val = 2 /\ day.val = 29
               THEN DpRet(<<LatestLeapYear(default_year), month.val, day.val>>,
                          pos + 2)
               ELSE DpRet(<<default_year, month.val, day.val>>, pos + 2))))

\* the branch for YYYY-?Www-?D?, entered with pos at the W
UncommonWeek(dt_str, year, pos) ==
    Bind(int(Slice(dt_str, pos + 1, pos + 3)), LAMBDA weekno :
      IF ~weekno.ok THEN DpFail("ValueError")
      ELSE IF ~(len(dt_str) > pos + 3)
           THEN DpOfDate(_calculate_weekdate(year, weekno.val, 1), pos + 3)
      ELSE IF At(dt_str, pos + 3) = "-" /\ At(dt_str, 4) # "-"
           THEN DpFail("ValueError")
      ELSE
        Bind(IF At(dt_str, pos + 3) = "-" THEN pos + 4 ELSE pos + 3,
             LAMBDA pos2 :
          IF ~HasIndex(dt_str, pos2) THEN DpFail("IndexError")
          ELSE
            Bind(int(<<At(dt_str, pos2)>>), LAMBDA dayno :
              IF ~dayno.ok THEN DpFail("ValueError")
              ELSE DpOfDate(_calculate_weekdate(year, weekno.val, dayno.val),
                            pos2 + 1))))

\* the branch for YYYYDDD and YYYY-DDD
UncommonOrdinal(dt_str, year, pos) ==
    Bind(int(Slice(dt_str, pos, pos + 3)), LAMBDA ordinal_day :
      IF ~ordinal_day.ok THEN DpFail("ValueError")
      ELSE IF \/ ordinal_day.val < 1
              \/ ordinal_day.val > 365 + (IF isleap(year) THEN 1 ELSE 0)
           THEN DpFail("ValueError")
      ELSE
        Bind(date(year, 1, 1), LAMBDA jan_1 :
          IF ~jan_1.ok THEN DpFail(jan_1.err)
          ELSE DpOfDate(AddDays(jan_1.ymd, ordinal_day.val - 1), pos + 3)))

_parse_isodate_uncommon(dt_str, default_year) ==
    IF Slice(dt_str, 0, 2) = <<"-", "-">>
    THEN UncommonNoYear(dt_str, default_year)
    ELSE
      Bind(int(Slice(dt_str, 0, 4)), LAMBDA year :
        IF ~year.ok THEN DpFail("ValueError")
        ELSE IF ~HasIndex(dt_str, 4) THEN DpFail("IndexError")
        ELSE
          Bind(4 + (IF At(dt_str, 4) = "-" THEN 1 ELSE 0), LAMBDA pos :
            IF ~HasIndex(dt_str, pos) THEN DpFail("IndexError")
            ELSE IF At(dt_str, pos) = "W"
                 THEN UncommonWeek(dt_str, year.val, pos)
                 ELSE UncommonOrdinal(dt_str, year.val, pos)))

\* try the common formats; on ValueError, the uncommon ones
_parse_isodate(dt_str, default_year) ==
    Bind(_parse_isodate_common(dt_str), LAMBDA common :
      IF common.ok \/ common.err # "ValueError" THEN common
      ELSE _parse_isodate_uncommon(dt_str, default_year))

----------------------------------------------------------------------------
(* Isoparser._parse_isotime                                                *)

\* what the time parser returns: components[0:4] and components[4] (the tz)
TpFail(e) == [ok |-> FALSE, err |-> e, components |-> <<0, 0, 0, 0>>, tz |-> NoTz]

TpRet(components, tz) ==
    [ok |-> TRUE, err |-> "", components |-> components, tz |-> tz]

\* _MICROSECOND_END_REGEX.split(s, 1)[0]: s up to its first '-', '+' or 'Z'
RECURSIVE MicrosecondEndSplit(_)
MicrosecondEndSplit(s) ==
    IF s = <<>> \/ s[1] \in {"-", "+", "Z"} THEN <<>>
    ELSE <<s[1]>> \o MicrosecondEndSplit(Tail(s))

\* the state of the while loop: pos, comp and components, with ok FALSE and
\* the exception in err once one was raised
LoopState(ok, err, components, tz, pos, comp) ==
    [ok |-> ok, err |-> err, components |-> components, tz |-> tz,
     pos |-> pos, comp |-> comp]

\* one pass through the body of the while loop, from the state st at its
\* test; done says that the loop is left (by break or by an exception)
LoopBody(timestr, has_sep, st) ==
    Bind(st.comp + 1, LAMBDA comp :
      IF At(timestr, st.pos) \in {"-", "+", "Z"}
      THEN \* time zone boundary
        Bind(parse_tzstr(SliceFrom(timestr, st.pos), TRUE), LAMBDA tz :
          IF ~tz.ok
          THEN LoopState(FALSE, tz.err, st.components, NoTz, st.pos, comp)
          ELSE LoopState(TRUE, "", st.components, tz.tz, len(timestr), 5))
      ELSE IF comp < 3
      THEN \* hour, minute, second
        Bind(int(Slice(timestr, st.pos, st.pos + 2)), LAMBDA v :
          IF ~v.ok
          THEN LoopState(FALSE, "ValueError", st.components, NoTz, st.pos, comp)
          ELSE LoopState(TRUE, "", [st.components EXCEPT ![comp + 1] = v.val],
                         NoTz,
                         IF /\ has_sep
                            /\ st.pos + 2 < len(timestr)
                            /\ At(timestr, st.pos + 2) = ":"
                         THEN st.pos + 3 ELSE st.pos + 2,
                         comp))
      ELSE IF comp = 3 /\ At(timestr, st.pos) = "."
      THEN \* microsecond
        Bind(MicrosecondEndSplit(Slice(timestr, st.pos + 1, st.pos + 7)),
             LAMBDA us_str :
        Bind(int(us_str), LAMBDA v :
          IF ~v.ok
          THEN LoopState(FALSE, "ValueError", st.components, NoTz, st.pos, comp)
          ELSE LoopState(TRUE, "",
                         [st.components EXCEPT
                            ![4] = v.val * Pow10(6 - len(us_str))],
                         NoTz, st.pos + 1 + len(us_str), comp)))
      ELSE LoopState(TRUE, "", st.components, NoTz, st.pos, comp))

\* the while loop: the state when it is left
RECURSIVE IsotimeLoop(_, _, _)
IsotimeLoop(timestr, has_sep, st) ==
    IF ~st.ok \/ ~(st.pos < len(timestr) /\ st.comp < 5) THEN st
    ELSE Bind(LoopBody(timestr, has_sep, st), LAMBDA st1 :
           IsotimeLoop(timestr, has_sep, st1))

\* a faulty MidnightRule, which C6 must tell from the real one: the
\* microsecond is not looked at
MidnightRuleNoMicrosecond(components) ==
    IF components[1] = 24
    THEN IF \E i \in 2..3 : components[i] # 0
         THEN [ok |-> FALSE, components |-> components]
         ELSE [ok |-> TRUE, components |-> [components EXCEPT ![1] = 0]]
    ELSE [ok |-> TRUE, components |-> components]

\* "Standard supports 00:00 and 24:00 as representations of midnight"
MidnightRule(components) ==
    IF components[1] = 24
    THEN IF \E i \in 2..4 : components[i] # 0
         THEN [ok |-> FALSE, components |-> components]
         ELSE [ok |-> TRUE, components |-> [components EXCEPT ![1] = 0]]
    ELSE [ok |-> TRUE, components |-> components]

_parse_isotime(timestr) ==
    Bind(IsotimeLoop(timestr, len(timestr) >= 3 /\ At(timestr, 2) = ":",
                     LoopState(TRUE, "", <<0, 0, 0, 0>>, NoTz, 0, 0 - 1)),
         LAMBDA loop :
      IF ~loop.ok THEN TpFail(loop.err)
      ELSE IF loop.pos < len(timestr) THEN TpFail("ValueError")
      ELSE Bind(MidnightRule(loop.components), LAMBDA midnight :
             IF ~midnight.ok THEN TpFail("ValueError")
             ELSE TpRet(midnight.components, loop.tz)))

----------------------------------------------------------------------------
(* The public methods.  Each returns [ok, err, ymd, hmsu, tz]: the fields  *)
(* of the date, time or datetime built, or the exception raised.           *)

NoTime == <<0, 0, 0, 0>>

Raise(e) == [ok |-> FALSE, err |-> e, ymd |-> NoDate, hmsu |-> NoTime, tz |-> NoTz]

Return(ymd, hmsu, tz) ==
    [ok |-> TRUE, err |-> "", ymd |-> ymd, hmsu |-> hmsu, tz |-> tz]

NoResult == [ok |-> FALSE, err |-> "", ymd |-> NoDate, hmsu |-> NoTime, tz |-> NoTz]

\* date(*components)
DateOf(components) == date(components[1], components[2], components[3])

\* datetime(*components), for the date fields and the time parser's result
DatetimeOf(d, t) ==
    IF ~d.ok THEN Raise(d.err)
    ELSE IF ~TimeFieldsOk(t.components) THEN Raise("ValueError")
    ELSE Return(d.ymd, t.components, t.tz)

\* Isoparser.parse_isodate(datestr)
parse_isodate(datestr, default_year) ==
    Bind(_parse_isodate(datestr, default_year), LAMBDA parsed :
      IF ~parsed.ok THEN Raise(parsed.err)
      ELSE Bind(DateOf(parsed.components), LAMBDA d :
             IF ~d.ok THEN Raise(d.err) ELSE Return(d.ymd, NoTime, NoTz)))

\* Isoparser.parse_isotime(timestr)
parse_isotime(timestr) ==
    Bind(_parse_isotime(timestr), LAMBDA parsed :
      IF ~parsed.ok THEN Raise(parsed.err)
      ELSE IF ~TimeFieldsOk(parsed.components) THEN Raise("ValueError")
      ELSE Return(NoDate, parsed.components, parsed.tz))

\* Isoparser.isoparse(dt_str, common_only)
isoparse(dt_str, common_only, sep, default_year) ==
    Bind(IF common_only THEN _parse_isodate_common(dt_str)
         ELSE _parse_isodate(dt_str, default_year), LAMBDA parsed :
      IF ~parsed.ok THEN Raise(parsed.err)
      ELSE IF len(dt_str) > parsed.pos
      THEN IF At(dt_str, parsed.pos) = sep
           THEN Bind(_parse_isotime(SliceFrom(dt_str, parsed.pos + 1)),
                     LAMBDA t :
                  IF ~t.ok THEN Raise(t.err)
                  ELSE DatetimeOf(DateOf(parsed.components), t))
           ELSE Raise("ValueError")
      ELSE DatetimeOf(DateOf(parsed.components), TpRet(NoTime, NoTz)))

----------------------------------------------------------------------------
(* Isoparser.__init__                                                      *)

NoInstance == [made |-> FALSE, sep |-> "", default_year |-> 0]

\* sep is a str; default_year is [given |-> FALSE] for None; now_year is
\* datetime.now().year at the time of the call
__init__(sep, default_year, now_year) ==
    IF len(sep) # 1 THEN [ok |-> FALSE, err |-> "ValueError", obj |-> NoInstance]
    ELSE IF default_year.given
    THEN IF ~(1 <= default_year.val /\ default_year.val <= 9999)
         THEN [ok |-> FALSE, err |-> "ValueError", obj |-> NoInstance]
         ELSE [ok |-> TRUE, err |-> "",
               obj |-> [made |-> TRUE, sep |-> sep[1],
                        default_year |-> default_year.val]]
    ELSE [ok |-> TRUE, err |-> "",
          obj |-> [made |-> TRUE, sep |-> sep[1], default_year |-> now_year]]

----------------------------------------------------------------------------
(* The texts the methods are called with.  A text is put together from a   *)
(* date part and a time part, each written in one of the formats the       *)
(* docstring of isoparse lists (or in a damaged variant of one).           *)

RECURSIVE Fmt(_, _)
\* n in decimal, zero-padded to width digits (the low width digits of n)
Fmt(n, width) ==
    IF width = 0 THEN <<>>
    ELSE Fmt(n \div 10, width - 1) \o <<DigitChars[(n % 10) + 1]>>

CommonForms == {"YYYY", "YYYY-MM", "YYYYMM", "YYYY-MM-DD", "YYYYMMDD"}

NoYearForms == {"--MM-DD", "--MMDD"}

WeekForms == {"YYYY-Www", "YYYYWww", "YYYY-Www-D", "YYYYWwwD"}

MixedWeekForms == {"YYYYWww-D", "YYYY-WwwD"}

OrdinalForms == {"YYYY-DDD", "YYYYDDD"}

NoDateArg == [form |-> "none", a |-> 0, b |-> 0, c |-> 0, tail |-> <<>>]

DateArg(form, a, b, c, tail) ==
    [form |-> form, a |-> a, b |-> b, c |-> c, tail |-> tail]

\* the text of a date part: a, b, c are year, month, day (common and
\* year-less forms), year, week, weekday (week forms) or year, ordinal day;
\* form "isocalendar" writes the date a-b-c as its ISO week date
RenderDate(d) ==
    LET f   == d.form
        iso == isocalendar(<<d.a, d.b, d.c>>)
    IN  (CASE f = "YYYY"       -> Fmt(d.a, 4)
           [] f = "YYYY-MM"    -> Fmt(d.a, 4) \o <<"-">> \o Fmt(d.b, 2)
           [] f = "YYYYMM"     -> Fmt(d.a, 4) \o Fmt(d.b, 2)
           [] f = "YYYY-MM-DD" -> Fmt(d.a, 4) \o <<"-">> \o Fmt(d.b, 2)
                                    \o <<"-">> \o Fmt(d.c, 2)
           [] f = "YYYYMMDD"   -> Fmt(d.a, 4) \o Fmt(d.b, 2) \o Fmt(d.c, 2)
           [] f = "--MM-DD"    -> <<"-", "-">> \o Fmt(d.b, 2) \o <<"-">>
                                    \o Fmt(d.c, 2)
           [] f = "--MMDD"     -> <<"-", "-">> \o Fmt(d.b, 2) \o Fmt(d.c, 2)
           [] f = "YYYY-Www"   -> Fmt(d.a, 4) \o <<"-", "W">> \o Fmt(d.b, 2)
           [] f = "YYYYWww"    -> Fmt(d.a, 4) \o <<"W">> \o Fmt(d.b, 2)
           [] f = "YYYY-Www-D" -> Fmt(d.a, 4) \o <<"-", "W">> \o Fmt(d.b, 2)
                                    \o <<"-">> \o Fmt(d.c, 1)
           [] f = "YYYYWwwD"   -> Fmt(d.a, 4) \o <<"W">> \o Fmt(d.b, 2)
                                    \o Fmt(d.c, 1)
           [] f = "YYYYWww-D"  -> Fmt(d.a, 4) \o <<"W">> \o Fmt(d.b, 2)
                                    \o <<"-">> \o Fmt(d.c, 1)
           [] f = "YYYY-WwwD"  -> Fmt(d.a, 4) \o <<"-", "W">> \o Fmt(d.b, 2)
                                    \o Fmt(d.c, 1)
           [] f = "YYYY-DDD"   -> Fmt(d.a, 4) \o <<"-">> \o Fmt(d.b, 3)
           [] f = "YYYYDDD"    -> Fmt(d.a, 4) \o Fmt(d.b, 3)
           [] f = "isocalendar" -> Fmt(iso[1], 4) \o <<"-", "W">>
                                    \o Fmt(iso[2], 2) \o <<"-">> \o Fmt(iso[3], 1)
           [] OTHER            -> <<>>) \o d.tail

NoTimeArg ==
    [n |-> 0, h |-> 0, mi |-> 0, s |-> 0, colon |-> FALSE, frac |-> <<>>,
     tz |-> <<>>, chop |-> FALSE]

\* the text of a time part: n of the fields hh, mm, ss, joined by ':' when
\* colon, then '.' and the digits frac when frac is not empty, then the zone
\* token tz; chop drops the last character of the last field
RenderTime(t) ==
    LET c   == IF t.colon THEN <<":">> ELSE <<>>
        hms == CASE t.n = 0 -> <<>>
                 [] t.n = 1 -> Fmt(t.h, 2)
                 [] t.n = 2 -> Fmt(t.h, 2) \o c \o Fmt(t.mi, 2)
                 [] OTHER   -> Fmt(t.h, 2) \o c \o Fmt(t.mi, 2) \o c \o Fmt(t.s, 2)
        cut == IF t.chop THEN SubSeq(hms, 1, Len(hms) - 1) ELSE hms
    IN  cut \o (IF t.frac = <<>> THEN <<>> ELSE <<".">> \o t.frac) \o t.tz

----------------------------------------------------------------------------
(* The bounds of the model and the arguments the calls are made with       *)

\* days 1..MaxDay are written into the texts of the day sweep
MaxDay == 31

\* _calculate_weekdate is called with the weeks 0..MaxWeek
MaxWeek == 54

\* ... and with the weekdays 0..MaxWeekday
MaxWeekday == 8

\* the texts carry the years 2003 .. 2003 + YearSpan - 1 besides the fixed ones
YearSpan == 2

TextYears == {1, 1900, 2000, 9999} \cup (2003 .. (2003 + YearSpan - 1))

Given(y) == [given |-> TRUE, val |-> y]

None == [given |-> FALSE, val |-> 0]

\* the default_year arguments of the constructor
DefaultYearArgs ==
    {Given(y) : y \in {0, 1, 2, 3, 4, 100, 1900, 1901, 2000, 2003, 2004,
                       9999, 10000}} \cup {None}

\* datetime.now().year when the constructor runs
ClockYears == {2003, 2004}

\* the (sep, default_year) arguments of the constructor
InitArgs ==
    {[sep |-> <<"T">>, default_year |-> y] : y \in DefaultYearArgs}
      \cup {[sep |-> s, default_year |-> Given(2003)] :
              s \in {<<" ">>, <<>>, <<"T", "T">>}}

\* characters left over after a date
Tails == {<<"x">>, <<"5">>, <<"T">>, <<"-">>, <<"T", "1", "0">>}

\* one or two dates in every format
SampleDates ==
    {DateArg(f, 2003, 9, 25, <<>>) : f \in CommonForms \cup NoYearForms}
      \cup {DateArg(f, 2000, 2, 29, <<>>) : f \in {"YYYY-MM-DD", "YYYYMMDD"}}
      \cup {DateArg(f, 2003, 39, 4, <<>>) : f \in WeekForms \cup MixedWeekForms}
      \cup {DateArg(f, 2003, 268, 0, <<>>) : f \in OrdinalForms}

\* the datestr arguments of parse_isodate
ParseIsodateArgs ==
    {DateArg(f, y, m, d, <<>>) :
        f \in {"YYYY-MM-DD", "YYYYMMDD"}, y \in TextYears,
        m \in 1..12, d \in 1..MaxDay}
      \cup {DateArg("isocalendar", y, m, d, <<>>) :
              y \in TextYears, m \in 1..12, d \in 1..28}
      \cup {a \in {DateArg("isocalendar", y, m, d, <<>>) :
                     y \in TextYears, m \in 1..12, d \in 29..MaxDay} :
              a.c <= DaysInMonth(a.a, a.b)}
      \cup {DateArg(f, y, m, 1, <<>>) :
              f \in {"YYYY", "YYYY-MM", "YYYYMM"}, y \in TextYears,
              m \in {1, 9, 12}}
      \cup {DateArg(f, 0, m, d, <<>>) :
              f \in NoYearForms, m \in 1..12, d \in 1..MaxDay}
      \cup {DateArg(f, y, w, d, <<>>) :
              f \in WeekForms \cup MixedWeekForms, y \in TextYears,
              w \in {1, 39, 52, 53}, d \in {1, 4, 7}}
      \cup {DateArg(f, y, n, 0, <<>>) :
              f \in OrdinalForms, y \in TextYears, n \in {1, 60, 268, 365, 366}}
      \cup {[d EXCEPT !.tail = t] : d \in SampleDates, t \in Tails}

TimeArg(n, h, mi, s, colon, frac, tz) ==
    [n |-> n, h |-> h, mi |-> mi, s |-> s, colon |-> colon, frac |-> frac,
     tz |-> tz, chop |-> FALSE]

TimeArgShape(t) ==
    /\ (t.n < 2 => t.mi = 0 /\ ~t.colon)
    /\ (t.n < 3 => t.s = 0 /\ t.frac = <<>>)
    /\ (t.n = 0 => t.h = 0 /\ ~t.chop)
    /\ (t.chop => t.frac = <<>> /\ t.tz = <<>>)

\* the timestr arguments of parse_isotime
ParseIsotimeArgs ==
    {t \in [n : 0..3, h : {0, 10, 23, 24, 25}, mi : {0, 30, 59, 60},
            s : {0, 41, 60}, colon : BOOLEAN,
            frac : {<<>>, <<"0">>, <<"0", "0", "0">>, <<"0", "0", "1">>,
                    <<"1", "2", "3", "4", "5", "6">>,
                    <<"0", "0", "0", "0", "0", "0">>,
                    <<"1", "2", "3", "4", "5", "6", "7">>},
            tz : {<<>>, <<"Z">>, <<"+", "0", "5", ":", "3", "0">>,
                  <<"-", "0", "3">>, <<"+", "0", "0", "0", "0">>,
                  <<"+", "0", "5", ":", "3">>},
            chop : BOOLEAN] : TimeArgShape(t)}

\* the time parts of the dt_str arguments of isoparse
SampleTimes ==
    {TimeArg(1, h, 0, 0, FALSE, <<>>, tz) :
        h \in {10, 24}, tz \in {<<>>, <<"-", "0", "3", ":", "0", "0">>}}
      \cup {TimeArg(2, hm[1], hm[2], 0, c, <<>>, <<>>) :
              hm \in {<<10, 49>>, <<24, 0>>, <<24, 49>>}, c \in BOOLEAN}
      \cup {TimeArg(3, hms[1], hms[2], hms[3], c, f, tz) :
              hms \in {<<10, 49, 41>>, <<24, 0, 0>>}, c \in BOOLEAN,
              f \in {<<>>, <<"1", "2", "3">>},
              tz \in {<<>>, <<"-", "0", "3", ":", "0", "0">>}}

\* the characters put between the date part and the time part
JoinChars == {"T", " "}

\* the dt_str arguments of isoparse: a date part alone (join is ""), or a
\* date part, a join character and a time part
IsoparseArgs ==
    {[d |-> d, t |-> NoTimeArg, join |-> ""] : d \in SampleDates}
      \cup {[d |-> d, t |-> t, join |-> j] :
              d \in SampleDates, t \in SampleTimes, j \in JoinChars}

RenderDateTime(a) ==
    IF a.join = "" THEN RenderDate(a.d)
    ELSE RenderDate(a.d) \o <<a.join>> \o RenderTime(a.t)

Seqs(S, n) == UNION {[1..k -> S] : k \in 0..n}

\* the tzstr arguments of parse_tzstr: a sign (or none, or Z), an hour
\* field, a ':' or none, and up to three more characters
TzTokens ==
    {sg \o hh \o c \o mm :
        sg \in {<<"+">>, <<"-">>, <<"Z">>, <<>>},
        hh \in {<<"0", "0">>, <<"0", "5">>, <<"2", "3">>, <<"2", "4">>,
                <<"5">>, <<>>},
        c \in {<<>>, <<":">>},
        mm \in Seqs({"0", "3", "6"}, 3)}

----------------------------------------------------------------------------
(* The state machine: an instance is made, and one method is called.  No   *)
(* method changes the instance, so a behaviour makes one call; the class   *)
(* methods are called on the class.                                        *)

NoArg == [d |-> NoDateArg, t |-> NoTimeArg, join |-> ""]

Init ==
    /\ self = NoInstance
    /\ op = "none"
    /\ arg = NoArg
    /\ text = <<>>
    /\ flag = FALSE
    /\ result = NoResult

\* Isoparser(sep, default_year)
Construct ==
    /\ ~self.made
    /\ op = "none"
    /\ \E a \in InitArgs, now_year \in ClockYears :
         LET made == __init__(a.sep, a.default_year, now_year)
         IN  /\ self' = made.obj
             /\ result' = IF made.ok THEN Return(NoDate, NoTime, NoTz)
                          ELSE Raise(made.err)
    /\ op' = "__init__"
    /\ UNCHANGED <<arg, text, flag>>

\* self.parse_isodate(datestr)
CallParseIsodate ==
    /\ self.made
    /\ op = "__init__"
    /\ \E d \in ParseIsodateArgs :
         /\ arg' = [NoArg EXCEPT !.d = d]
         /\ text' = RenderDate(d)
         /\ result' = parse_isodate(text', self.default_year)
    /\ op' = "parse_isodate"
    /\ UNCHANGED <<self, flag>>

\* self.isoparse(dt_str, common_only)
CallIsoparse ==
    /\ self.made
    /\ op = "__init__"
    /\ \E a \in IsoparseArgs, common_only \in BOOLEAN :
         /\ arg' = a
         /\ text' = RenderDateTime(a)
         /\ flag' = common_only
         /\ result' = isoparse(text', common_only, self.sep, self.default_year)
    /\ op' = "isoparse"
    /\ UNCHANGED self

\* Isoparser.parse_isotime(timestr)
CallParseIsotime ==
    /\ ~self.made
    /\ op = "none"
    /\ \E t \in ParseIsotimeArgs :
         /\ arg' = [NoArg EXCEPT !.t = t]
         /\ text' = RenderTime(t)
         /\ result' = parse_isotime(text')
    /\ op' = "parse_isotime"
    /\ UNCHANGED <<self, flag>>

\* Isoparser.parse_tzstr(tzstr, zero_as_utc)
CallParseTzstr ==
    /\ ~self.made
    /\ op = "none"
    /\ \E tzstr \in TzTokens, zero_as_utc \in BOOLEAN :
         LET tz == parse_tzstr(tzstr, zero_as_utc)
         IN  /\ text' = tzstr
             /\ flag' = zero_as_utc
             /\ result' = IF tz.ok THEN Return(NoDate, NoTime, tz.tz)
                          ELSE Raise(tz.err)
    /\ op' = "parse_tzstr"
    /\ UNCHANGED <<self, arg>>

\* Isoparser._calculate_weekdate(year, week, day)
CallCalculateWeekdate ==
    /\ ~self.made
    /\ op = "none"
    /\ \E year \in TextYears, week \in 0..MaxWeek, day \in 0..MaxWeekday :
         LET d == _calculate_weekdate(year, week, day)
         IN  /\ arg' = [NoArg EXCEPT !.d = DateArg("ywd", year, week, day, <<>>)]
             /\ result' = IF d.ok THEN Return(d.ymd, NoTime, NoTz)
                          ELSE Raise(d.err)
    /\ op' = "_calculate_weekdate"
    /\ UNCHANGED <<self, text, flag>>

Next ==
    \/ Construct
    \/ CallParseIsodate
    \/ CallIsoparse
    \/ CallParseIsotime
    \/ CallParseTzstr
    \/ CallCalculateWeekdate

Spec == Init /\ [][Next]_vars

----------------------------------------------------------------------------
(* The properties                                                          *)

\* year-month-day is a day of the calendar, in the years 1..9999
IsCalendarDate(year, month, day) ==
    /\ year \in 1..9999
    /\ month \in 1..12
    /\ day \in 1..DaysInMonth(year, month)

\* the call was self.parse_isodate of a date part in one of forms, with
\* nothing after it
ParsedDateOnly(forms) ==
    /\ op = "parse_isodate"
    /\ arg.d.form \in forms
    /\ arg.d.tail = <<>>

\* C1: for every year y in 1..9999, month m in 1..12 and day d valid for
\* (y, m), parse_isodate of the zero-padded text "YYYY-MM-DD" and of the
\* zero-padded text "YYYYMMDD" returns, and returns the date y-m-d.
C1_CommonDateParsed ==
    (/\ ParsedDateOnly({"YYYY-MM-DD", "YYYYMMDD"})
     /\ IsCalendarDate(arg.d.a, arg.d.b, arg.d.c))
      => (result.ok /\ result.ymd = <<arg.d.a, arg.d.b, arg.d.c>>)

\* C1's case: "20000229" was parsed to 2000-02-29
C1_Witness ==
    /\ ParsedDateOnly({"YYYYMMDD"})
    /\ text = <<"2", "0", "0", "0", "0", "2", "2", "9">>
    /\ result.ok
    /\ result.ymd = <<2000, 2, 29>>

\* C4: every calendar date D of the years 1..9999, written as its ISO week
\* date "isoYear-Wisoweek-isoweekday" (4, 2 and 1 digits), is parsed back
\* to D by parse_isodate.
C4_WeekDateRoundTrip ==
    (/\ ParsedDateOnly({"isocalendar"})
     /\ IsCalendarDate(arg.d.a, arg.d.b, arg.d.c))
      => (result.ok /\ result.ymd = <<arg.d.a, arg.d.b, arg.d.c>>)

\* C4's case: 2000-01-01, a day of ISO year 1999, was written "1999-W52-6"
\* and parsed back
C4_Witness ==
    /\ ParsedDateOnly({"isocalendar"})
    /\ text = <<"1", "9", "9", "9", "-", "W", "5", "2", "-", "6">>
    /\ result.ok
    /\ result.ymd = <<2000, 1, 1>>

\* ly is the last leap year in 1..year
IsLastLeapYear(ly, year) ==
    /\ 1 <= ly /\ ly <= year
    /\ isleap(ly)
    /\ \A z \in (ly + 1)..year : ~isleap(z)

\* the year-less texts other than February 29: a month and day valid in the
\* default year are returned with the default year, and no other year is
\* ever returned
OtherNoYearDates ==
    (/\ ParsedDateOnly(NoYearForms)
     /\ ~(arg.d.b = 2 /\ arg.d.c = 29))
      => /\ IsCalendarDate(self.default_year, arg.d.b, arg.d.c)
              => (result.ok
                  /\ result.ymd = <<self.default_year, arg.d.b, arg.d.c>>)
         /\ result.ok => result.ymd[1] = self.default_year

\* C5, as claimed: for every default year Y in 1..9999, "--02-29" and
\* "--0229" are parsed to February 29 of Y when Y is a leap year, and
\* otherwise of the greatest leap year less than Y; for every other
\* year-less month and day the year of the result is Y.
C5_AsClaimed ==
    /\ (/\ ParsedDateOnly(NoYearForms)
        /\ arg.d.b = 2 /\ arg.d.c = 29)
         => /\ result.ok
            /\ result.ymd[2] = 2 /\ result.ymd[3] = 29
            /\ IsLastLeapYear(result.ymd[1], self.default_year)
    /\ OtherNoYearDates

\* C5, amended: for every default year Y in 4..9999, "--02-29" and "--0229"
\* are parsed to February 29 of the last leap year in 1..Y (Y itself when Y
\* is a leap year); for Y in 1..3, which no leap year of 1..9999 precedes,
\* the call raises; for every other year-less month and day the year of the
\* result is Y.
C5_LeapDayDefaultYear ==
    /\ (/\ ParsedDateOnly(NoYearForms)
        /\ arg.d.b = 2 /\ arg.d.c = 29)
         => IF self.default_year >= 4
            THEN /\ result.ok
                 /\ result.ymd[2] = 2 /\ result.ymd[3] = 29
                 /\ IsLastLeapYear(result.ymd[1], self.default_year)
            ELSE ~result.ok
    /\ OtherNoYearDates

\* C5's case: with the default year 1900, "--02-29" was parsed to 1896-02-29
C5_Witness ==
    /\ ParsedDateOnly({"--MM-DD"})
    /\ self.default_year = 1900
    /\ arg.d.b = 2 /\ arg.d.c = 29
    /\ result.ok
    /\ result.ymd = <<1896, 2, 29>>

\* tzstr is sign HH, sign HHMM or sign HH:MM
WellFormedOffset(tzstr) ==
    /\ Len(tzstr) \in {3, 5, 6}
    /\ tzstr[1] \in {"+", "-"}
    /\ IsDigit(tzstr[2]) /\ IsDigit(tzstr[3])
    /\ Len(tzstr) = 5 => IsDigit(tzstr[4]) /\ IsDigit(tzstr[5])
    /\ Len(tzstr) = 6 => tzstr[4] = ":" /\ IsDigit(tzstr[5]) /\ IsDigit(tzstr[6])

\* the time part t is written as the grammar has it,
\* hh[:mm[:ss[.frac]]][Z|sign HH[:MM]], with 1 to 6 fraction digits and a
\* zone the offset parser accepts
ConformingTime(t) ==
    /\ t.n >= 1
    /\ ~t.chop
    /\ Len(t.frac) <= 6
    /\ \/ t.tz \in {<<>>, <<"Z">>}
       \/ WellFormedOffset(t.tz) /\ parse_tzstr(t.tz, TRUE).ok

\* minute, second and microsecond of the time part t are all 0
OnlyHourSet(t) ==
    /\ t.mi = 0
    /\ t.s = 0
    /\ \A i \in 1..Len(t.frac) : t.frac[i] = "0"

\* what the date parser isoparse ran (flag is its common_only argument)
\* returned for text
DatePartParsed ==
    IF flag THEN _parse_isodate_common(text)
    ELSE _parse_isodate(text, self.default_year)

\* the date parser stopped where the date part of arg ends, so that the
\* time part of arg is what follows the separator
DatePartConsumed ==
    /\ DatePartParsed.ok
    /\ DatePartParsed.pos = Len(RenderDate(arg.d))

\* C6: a time text whose hour field is 24 is accepted by the time parser if
\* and only if its minute, second and microsecond are all 0, and the hour
\* returned is then 0: no time returned has the hour 24.  When it is the time
\* part of the text isoparse is given (the text after the separator that
\* follows what the date parser consumed), the date returned is the date of
\* the date part, not the day after it.
C6_MidnightRule ==
    /\ (op \in {"parse_isotime", "isoparse"} /\ result.ok)
         => result.hmsu[1] \in 0..23
    /\ (/\ op = "parse_isotime"
        /\ ConformingTime(arg.t)
        /\ arg.t.h = 24)
         => /\ result.ok <=> OnlyHourSet(arg.t)
            /\ result.ok => result.hmsu = <<0, 0, 0, 0>>
    /\ (/\ op = "isoparse"
        /\ arg.join = self.sep
        /\ DatePartConsumed
        /\ ConformingTime(arg.t)
        /\ arg.t.h = 24)
         => /\ result.ok <=> OnlyHourSet(arg.t)
            /\ result.ok =>
                 /\ result.hmsu = <<0, 0, 0, 0>>
                 /\ result.ymd = DatePartParsed.components
            /\ (arg.d.form \in {"YYYY-MM-DD", "YYYYMMDD"} /\ result.ok)
                 => result.ymd = <<arg.d.a, arg.d.b, arg.d.c>>

\* C6's case: "2003-09-25T24:00:00" was parsed to 2003-09-25 00:00:00
C6_Witness ==
    /\ op = "isoparse"
    /\ text = <<"2", "0", "0", "3", "-", "0", "9", "-", "2", "5", "T",
                "2", "4", ":", "0", "0", ":", "0", "0">>
    /\ result.ok
    /\ result.ymd = <<2003, 9, 25>>
    /\ result.hmsu = <<0, 0, 0, 0>>

\* C2, as claimed: for every date text d of the date grammar that names a
\* valid date and every non-empty time text t of the time grammar,
\* isoparse(d + sep + t) with common_only false returns, with the date
\* fields parse_isodate(d) returns and the time fields parse_isotime(t)
\* returns.
C2_AsClaimed ==
    (/\ op = "isoparse"
     /\ ~flag
     /\ arg.join = self.sep
     /\ arg.d.form \in CommonForms \cup NoYearForms \cup WeekForms
                         \cup OrdinalForms
     /\ arg.d.tail = <<>>
     /\ parse_isodate(RenderDate(arg.d), self.default_year).ok
     /\ ConformingTime(arg.t)
     /\ parse_isotime(RenderTime(arg.t)).ok)
      => /\ result.ok
         /\ result.ymd = parse_isodate(RenderDate(arg.d), self.default_year).ymd
         /\ result.hmsu = parse_isotime(RenderTime(arg.t)).hmsu
         /\ result.tz = parse_isotime(RenderTime(arg.t)).tz

\* C3, as claimed: parse_isodate raises for every text in which characters
\* remain after the date components the date parser consumed.
C3_AsClaimed ==
    (/\ op = "parse_isodate"
     /\ arg.d.tail # <<>>
     /\ parse_isodate(RenderDate([arg.d EXCEPT !.tail = <<>>]),
                      self.default_year).ok
     /\ _parse_isodate(text, self.default_year).ok
     /\ _parse_isodate(text, self.default_year).pos < Len(text))
      => ~result.ok

\* C7, as claimed: parse_tzstr returns only for "Z" and for a token of the
\* shape sign HH, sign HHMM or sign HH:MM.
C7_AsClaimed ==
    (op = "parse_tzstr" /\ result.ok)
      => (text = <<"Z">> \/ WellFormedOffset(text))

\* C8, as claimed: for every ISO year y in 1..9999, week w in 1..53 and
\* weekday d in 1..7 for which _calculate_weekdate returns a date, the ISO
\* year, week and weekday of that date are y, w and d.
C8_AsClaimed ==
    (/\ op = "_calculate_weekdate"
     /\ arg.d.a \in 1..9999 /\ arg.d.b \in 1..53 /\ arg.d.c \in 1..7
     /\ result.ok)
      => isocalendar(result.ymd) = <<arg.d.a, arg.d.b, arg.d.c>>

\* C9, as claimed: an ISO week date with a day digit and a '-' at only one
\* of the two places, "YYYYWww-D" or "YYYY-WwwD", is rejected.
C9_AsClaimed ==
    ParsedDateOnly(MixedWeekForms) => ~result.ok

\* C10, as claimed: a time text that ends one character into its hour,
\* minute or second field is rejected by parse_isotime.
C10_AsClaimed ==
    (op = "parse_isotime" /\ arg.t.chop) => ~result.ok

====
